---- MODULE Spec2Model ----
(***************************************************************************)
(* Layout-constraint core of masonry: BoxConstraints, ContentFill,         *)
(* BiAxial and Axis, and the ProgressBar widget laid out with them.        *)
(*                                                                         *)
(* The specifications share the variables:                                 *)
(*   Spec        a BoxConstraints value built, shrunk and queried;         *)
(*   AspectSpec  BoxConstraints::constrain_aspect_ratio on the constraints *)
(*               of its test table and of the f64 grid;                    *)
(*   FillSpec    a BiAxial<ContentFill> shrunk slot by slot or as a pair;  *)
(*   QuerySpec   the queries of BiAxial<ContentFill>;                      *)
(*   LifeSpec    constraints derived by new, shrink and Axis::constraints; *)
(*   BiAxialSpec a BiAxial<T> edited slot by slot;                         *)
(*   AxisSpec    the methods of Axis;                                      *)
(*   HashSpec    equality and hashing of ContentFill;                      *)
(*   ProgressSpec a ProgressBar edited by set_progress and laid out;       *)
(*   PassSpec    its measure and layout passes, statement by statement.    *)
(*                                                                         *)
(* An f64 is modelled in sign-magnitude form, as IEEE 754 stores it:       *)
(*   [k |-> "nan" | "inf" | "fin", s |-> sign bit, n |-> num, d |-> den]   *)
(* with n/d the magnitude in lowest terms.  -0.0 is ("fin", 1, 0, 1).      *)
(* NaN, the infinities and the sign of zero follow IEEE 754; finite        *)
(* arithmetic is exact (rational): rounding to 53 bits is not modelled.    *)
(***************************************************************************)
EXTENDS Integers, FiniteSets, Sequences, TLC

VARIABLES bc, fill, bar, call

vars == <<bc, fill, bar, call>>

(***************************************************************************)
(* Bounds of the model.                                                    *)
(***************************************************************************)
\* magnitudes n/d with n <= MaxNum, d <= MaxDen are the f64 inputs
MaxNum == 3
MaxDen == 2
\* ContentFill limits and shrink amounts are the integers up to MaxAmount
MaxAmount == 5

(***************************************************************************)
(* f64                                                                     *)
(***************************************************************************)
RECURSIVE Gcd(_, _)
Gcd(a, b) == IF b = 0 THEN a ELSE Gcd(b, a % b)

Fin(s, n, d) ==
    LET g == Gcd(n, d)
    IN  [k |-> "fin", s |-> s, n |-> n \div g, d |-> d \div g]

NaN == [k |-> "nan", s |-> 0, n |-> 0, d |-> 1]

Inf(s) == [k |-> "inf", s |-> s, n |-> 0, d |-> 1]

INFINITY == Inf(0)

Zero == Fin(0, 0, 1)

NegZero == Fin(1, 0, 1)

One == Fin(0, 1, 1)

\* the f64 literal of an integer, and of a fraction n/d
Lit(i) == IF i < 0 THEN Fin(1, -i, 1) ELSE Fin(0, i, 1)

Frac(n, d) == IF n < 0 THEN Fin(1, -n, d) ELSE Fin(0, n, d)

is_nan(x) == x.k = "nan"

is_infinite(x) == x.k = "inf"

IsZero(x) == x.k = "fin" /\ x.n = 0

Xor(a, b) == IF a = b THEN 0 ELSE 1

\* signed numerator of a finite value
Num(x) == IF x.s = 1 THEN -x.n ELSE x.n

\* a < b
FLt(a, b) ==
    /\ ~is_nan(a)
    /\ ~is_nan(b)
    /\ CASE is_infinite(a) /\ a.s = 0 -> FALSE
         [] is_infinite(a) /\ a.s = 1 -> ~(is_infinite(b) /\ b.s = 1)
         [] is_infinite(b) -> b.s = 0
         [] OTHER -> Num(a) * b.d < Num(b) * a.d

\* a == b (NaN equals nothing, -0.0 == 0.0)
FEq(a, b) ==
    /\ ~is_nan(a)
    /\ ~is_nan(b)
    /\ a.k = b.k
    /\ IF is_infinite(a) THEN a.s = b.s
       ELSE a.n = b.n /\ a.d = b.d /\ (a.s = b.s \/ a.n = 0)

FLe(a, b) == FLt(a, b) \/ FEq(a, b)

FGt(a, b) == FLt(b, a)

FGe(a, b) == FLe(b, a)

FNeg(x) == IF is_nan(x) THEN x ELSE [x EXCEPT !.s = 1 - @]

\* f64::abs
FAbs(x) == [x EXCEPT !.s = 0]

FAdd(a, b) ==
    IF is_nan(a) \/ is_nan(b) THEN NaN
    ELSE IF is_infinite(a)
         THEN IF is_infinite(b) /\ a.s # b.s THEN NaN ELSE a
    ELSE IF is_infinite(b) THEN b
    ELSE LET v == Num(a) * b.d + Num(b) * a.d
         IN  IF v = 0
             THEN (IF a.s = 1 /\ b.s = 1 THEN NegZero ELSE Zero)
             ELSE Fin(IF v < 0 THEN 1 ELSE 0, IF v < 0 THEN -v ELSE v, a.d * b.d)

FSub(a, b) == FAdd(a, FNeg(b))

FMul(a, b) ==
    IF is_nan(a) \/ is_nan(b) THEN NaN
    ELSE IF is_infinite(a) \/ is_infinite(b)
         THEN IF IsZero(a) \/ IsZero(b) THEN NaN ELSE Inf(Xor(a.s, b.s))
    ELSE Fin(Xor(a.s, b.s), a.n * b.n, a.d * b.d)

FDiv(a, b) ==
    IF is_nan(a) \/ is_nan(b) THEN NaN
    ELSE IF is_infinite(a)
         THEN IF is_infinite(b) THEN NaN ELSE Inf(Xor(a.s, b.s))
    ELSE IF is_infinite(b) THEN Fin(Xor(a.s, b.s), 0, 1)
    ELSE IF IsZero(b)
         THEN IF IsZero(a) THEN NaN ELSE Inf(Xor(a.s, b.s))
    ELSE Fin(Xor(a.s, b.s), a.n * b.d, a.d * b.n)

\* f64::recip
recip(x) == FDiv(One, x)

\* f64::max: a NaN operand yields the other one; of two operands that compare
\* equal (0.0 and -0.0) either may be returned
f64_max(a, b) ==
    IF is_nan(a) THEN {b}
    ELSE IF is_nan(b) THEN {a}
    ELSE IF FLt(a, b) THEN {b}
    ELSE IF FLt(b, a) THEN {a}
    ELSE {a, b}

\* f64::min
f64_min(a, b) ==
    IF is_nan(a) THEN {b}
    ELSE IF is_nan(b) THEN {a}
    ELSE IF FLt(a, b) THEN {a}
    ELSE IF FLt(b, a) THEN {b}
    ELSE {a, b}

\* kurbo's FloatExt::expand: abs().ceil().copysign(self)
f64_expand(x) ==
    IF x.k = "fin" THEN Fin(x.s, (x.n + x.d - 1) \div x.d, 1) ELSE x

\* the f64 inputs of magnitude n/d, n <= maxnum, d <= maxden, of both signs,
\* with both zeros, both infinities and NaN
Grid(maxnum, maxden) ==
    {Fin(s, n, d) : s \in {0, 1}, n \in 0..maxnum, d \in 1..maxden}
        \cup {NaN, Inf(0), Inf(1)}

F64s == Grid(MaxNum, MaxDen)

(***************************************************************************)
(* kurbo::Size                                                             *)
(***************************************************************************)
Size_new(width, height) == [width |-> width, height |-> height]

\* Size as PartialEq compares it
SizeEq(a, b) == FEq(a.width, b.width) /\ FEq(a.height, b.height)

Size_expand(s) == Size_new(f64_expand(s.width), f64_expand(s.height))

\* Size::clamp: max(min) then min(max) on each component
Size_clamp(s, min, max) ==
    {Size_new(w, h) :
        w \in UNION {f64_min(m, max.width) : m \in f64_max(s.width, min.width)},
        h \in UNION {f64_min(m, max.height) : m \in f64_max(s.height, min.height)}}

Sizes == {Size_new(w, h) : w \in F64s, h \in F64s}

(***************************************************************************)
(* BoxConstraints                                                          *)
(***************************************************************************)
\* new storing the size as given
Mut_new(exact) == [exact |-> exact]

BoxConstraints_new(exact) == [exact |-> Size_expand(exact)]

BoxConstraints_size(self) == self.exact

\* constrain as its documentation describes it: a clamp into [0, exact]
Mut_constrain(self, size) ==
    Size_clamp(Size_expand(size), Size_new(Zero, Zero), self.exact)

\* the set of sizes constrain may return (one, up to the sign of zero)
BoxConstraints_constrain(self, size) ==
    Size_clamp(Size_expand(size), self.exact, self.exact)

\* shrink without the rounding of diff
Mut_shrink(self, diff) ==
    {BoxConstraints_new(Size_new(w, h)) :
        w \in f64_max(FSub(BoxConstraints_size(self).width, diff.width), Zero),
        h \in f64_max(FSub(BoxConstraints_size(self).height, diff.height), Zero)}

\* the set of constraints shrink may return (one, up to the sign of zero)
BoxConstraints_shrink(self, diff) ==
    LET d == Size_expand(diff)
    IN  {BoxConstraints_new(Size_new(w, h)) :
            w \in f64_max(FSub(BoxConstraints_size(self).width, d.width), Zero),
            h \in f64_max(FSub(BoxConstraints_size(self).height, d.height), Zero)}

BoxConstraints_contains(self, size) ==
    /\ FLe(size.width, self.exact.width)
    /\ FLe(size.height, self.exact.height)

\* the ideal size taken after the signs are dropped
Mut_ideal_size(aspect_ratio, width) ==
    Size_new(FAbs(width), FMul(FAbs(width), FAbs(aspect_ratio)))

\* constrain_aspect_ratio, line 132: the size asked for, from the arguments
\* as passed
ideal_size(aspect_ratio, width) ==
    Size_new(width, FMul(width, aspect_ratio))

\* the corner ratio taken as width / height
Mut_edge_size(self, aspect_ratio, width) ==
    LET max_w_max_h == FDiv(self.exact.width, self.exact.height)
    IN  IF FGt(aspect_ratio, max_w_max_h)
        THEN Size_new(FMul(self.exact.height, recip(aspect_ratio)),
                      self.exact.height)
        ELSE Size_new(self.exact.width, FMul(self.exact.width, aspect_ratio))

\* constrain_aspect_ratio, lines 145-171: the size returned when the ideal
\* size is not contained; aspect_ratio and width are the absolute values
edge_size(self, aspect_ratio, width) ==
    LET max_w_min_h == Zero
        max_w_max_h == FDiv(self.exact.height, self.exact.width)
    IN  IF FLt(aspect_ratio, max_w_min_h)
        THEN Size_new(self.exact.width, Zero)
        ELSE IF FLt(width, Zero)
             THEN Size_new(FMul(Zero, recip(aspect_ratio)), Zero)
        ELSE IF FGt(aspect_ratio, max_w_max_h)
             THEN Size_new(FMul(self.exact.height, recip(aspect_ratio)),
                           self.exact.height)
        ELSE Size_new(self.exact.width, FMul(self.exact.width, aspect_ratio))

BoxConstraints_constrain_aspect_ratio(self, aspect_ratio, width) ==
    IF BoxConstraints_contains(self, ideal_size(aspect_ratio, width))
    THEN ideal_size(aspect_ratio, width)
    ELSE edge_size(self, FAbs(aspect_ratio), FAbs(width))

\* debug_check in a debug build: TRUE when it reports nothing
BoxConstraints_debug_check(self) ==
    /\ ~is_nan(self.exact.width)
    /\ ~is_nan(self.exact.height)
    /\ ~is_infinite(self.exact.width)
    /\ ~is_infinite(self.exact.height)
    /\ ~FLt(self.exact.width, Zero)
    /\ ~FLt(self.exact.height, Zero)
    /\ SizeEq(Size_expand(self.exact), self.exact)

(***************************************************************************)
(* Axis and BiAxial<T>                                                     *)
(***************************************************************************)
Axis == {"Horizontal", "Vertical"}

BiAxial_new(horizontal, vertical) ==
    [horizontal |-> horizontal, vertical |-> vertical]

BiAxial_value_for_axis(self, axis) ==
    IF axis = "Horizontal" THEN self.horizontal ELSE self.vertical

BiAxial_set_for_axis(self, axis, value) ==
    IF axis = "Horizontal"
    THEN [self EXCEPT !.horizontal = value]
    ELSE [self EXCEPT !.vertical = value]

(***************************************************************************)
(* ContentFill and BiAxial<ContentFill>                                    *)
(***************************************************************************)
Min == [tag |-> "Min"]

Max == [tag |-> "Max"]

MaxStretch == [tag |-> "MaxStretch"]

ContentFill_Constrain(limit) == [tag |-> "Constrain", limit |-> limit]

\* shrink without the floor at zero
Mut_shrink_no_floor(self, amount) ==
    IF self.tag = "Constrain"
    THEN {ContentFill_Constrain(FSub(self.limit, amount))}
    ELSE {self}

\* shrink with min in place of max
Mut_shrink_min(self, amount) ==
    IF self.tag = "Constrain"
    THEN {ContentFill_Constrain(m) : m \in f64_min(FSub(self.limit, amount), Zero)}
    ELSE {self}

\* the set of policies shrink may return (one, up to the sign of zero)
ContentFill_shrink(self, amount) ==
    IF self.tag \in {"Min", "Max", "MaxStretch"}
    THEN {self}
    ELSE {ContentFill_Constrain(m) : m \in f64_max(FSub(self.limit, amount), Zero)}

BiAxial_shrink_constraints(self, shrink_amount) ==
    {BiAxial_new(horizontal, vertical) :
        horizontal \in ContentFill_shrink(self.horizontal, shrink_amount.horizontal),
        vertical \in ContentFill_shrink(self.vertical, shrink_amount.vertical)}

(***************************************************************************)
(* The life of a BoxConstraints value: a parent builds one, derives others *)
(* from it and queries it.  call holds the call being made, its arguments  *)
(* and what it returned, until the caller takes the result (Return); the   *)
(* traversal is single-threaded, so one call is outstanding at a time.     *)
(***************************************************************************)
NoCall == [op |-> "none"]

Idle == call = NoCall

Return ==
    /\ ~Idle
    /\ call' = NoCall
    /\ UNCHANGED <<bc, fill, bar>>

NoFill == BiAxial_new(Min, Min)

\* no ProgressBar built
NoBar == [widget |-> "none"]

Init ==
    /\ bc \in {BoxConstraints_new(s) : s \in Sizes}
    /\ fill = NoFill
    /\ bar = NoBar
    /\ call = NoCall

New ==
    /\ Idle
    /\ \E s \in Sizes :
        /\ bc' = BoxConstraints_new(s)
        /\ call' = [op |-> "new", size |-> s, ret |-> bc']
        /\ UNCHANGED <<fill, bar>>

Constrain ==
    /\ Idle
    /\ \E s \in Sizes :
        \E r \in BoxConstraints_constrain(bc, s) :
            /\ call' = [op |-> "constrain", self |-> bc, size |-> s, ret |-> r]
            /\ UNCHANGED <<bc, fill, bar>>

\* a negative diff grows the constraints: the model stops at MaxNum
InBounds(c) ==
    /\ c.exact.width.n <= MaxNum
    /\ c.exact.height.n <= MaxNum

Shrink ==
    /\ Idle
    /\ \E d \in Sizes :
        \E r \in BoxConstraints_shrink(bc, d) :
            /\ InBounds(r)
            /\ bc' = r
            /\ call' = [op |-> "shrink", self |-> bc, diff |-> d, ret |-> r]
            /\ UNCHANGED <<fill, bar>>

Contains ==
    /\ Idle
    /\ \E s \in Sizes :
        /\ call' = [op |-> "contains", self |-> bc, size |-> s,
                    ret |-> BoxConstraints_contains(bc, s)]
        /\ UNCHANGED <<bc, fill, bar>>

Next == New \/ Constrain \/ Shrink \/ Contains \/ Return

Spec == Init /\ [][Next]_vars

(***************************************************************************)
(* Claims on constrain and shrink (checked under Spec).                    *)
(***************************************************************************)
HasNaN(s) == is_nan(s.width) \/ is_nan(s.height)

\* x >= 0.0
NonNegative(x) == FGe(x, Zero)

\* C1 as stated: for every BoxConstraints c and every Size s, c.constrain(s)
\* returns exactly c.size().
C1_ConstrainIsSize ==
    call.op = "constrain" =>
        SizeEq(call.ret, BoxConstraints_size(call.self))

\* C1 amended: for every BoxConstraints c whose exact size has no NaN
\* component and every Size s (NaN included), c.constrain(s) == c.size().
C1_ConstrainIsSizeNoNaN ==
    (call.op = "constrain" /\ ~HasNaN(BoxConstraints_size(call.self))) =>
        SizeEq(call.ret, BoxConstraints_size(call.self))

\* a constrain call whose candidate is smaller than the target on one axis
\* and larger on the other, and still gets the target back
C1_Witness ==
    /\ call.op = "constrain"
    /\ ~HasNaN(BoxConstraints_size(call.self))
    /\ FLt(Zero, call.size.width)
    /\ FLt(f64_expand(call.size.width), call.self.exact.width)
    /\ FGt(call.size.height, call.self.exact.height)
    /\ SizeEq(call.ret, BoxConstraints_size(call.self))

\* C2: for every BoxConstraints c and every non-negative Size d, each
\* component of c.shrink(d).size() equals max(c.size() - expand(d), 0) on
\* that component.
C2_ShrinkSize ==
    (call.op = "shrink" /\ NonNegative(call.diff.width)
        /\ NonNegative(call.diff.height)) =>
        /\ \A m \in f64_max(FSub(BoxConstraints_size(call.self).width,
                                  f64_expand(call.diff.width)), Zero) :
              FEq(BoxConstraints_size(call.ret).width, m)
        /\ \A m \in f64_max(FSub(BoxConstraints_size(call.self).height,
                                  f64_expand(call.diff.height)), Zero) :
              FEq(BoxConstraints_size(call.ret).height, m)

\* a shrink by a fractional width that leaves room and by a height larger
\* than the target, which is floored at zero
C2_Witness ==
    /\ call.op = "shrink"
    /\ call.diff.width = Frac(1, 2)
    /\ call.self.exact.width = Lit(3)
    /\ BoxConstraints_size(call.ret).width = Lit(2)
    /\ FLt(Zero, call.self.exact.height)
    /\ FGt(call.diff.height, call.self.exact.height)
    /\ BoxConstraints_size(call.ret).height = Zero

(***************************************************************************)
(* The aspect-ratio solver, on the constraints, ratios and widths of the   *)
(* test table of box_constraints.rs together with the f64 grid.            *)
(***************************************************************************)
TableDims == {Lit(40), Lit(50), Lit(60), Lit(90), Lit(100), INFINITY}

TableRatios == {Lit(1), Lit(2), Frac(1, 2), Lit(10), Frac(1, 10)}

TableWidths == {Lit(5), Lit(30), Lit(50), Lit(60), Lit(100), Lit(105)}

AspectDims == F64s \cup TableDims

AspectRatios == F64s \cup TableRatios

AspectWidths == F64s \cup TableWidths

AspectInit ==
    /\ bc \in {BoxConstraints_new(Size_new(w, h)) :
                  w \in AspectDims, h \in AspectDims}
    /\ fill = NoFill
    /\ bar = NoBar
    /\ call = NoCall

ConstrainAspectRatio ==
    /\ Idle
    /\ \E r \in AspectRatios, w \in AspectWidths :
        /\ call' = [op |-> "constrain_aspect_ratio", self |-> bc,
                    aspect_ratio |-> r, width |-> w,
                    ret |-> BoxConstraints_constrain_aspect_ratio(bc, r, w)]
        /\ UNCHANGED <<bc, fill, bar>>

AspectNext == ConstrainAspectRatio \/ Return

AspectSpec == AspectInit /\ [][AspectNext]_vars

(***************************************************************************)
(* Claims on constrain_aspect_ratio (checked under AspectSpec).            *)
(***************************************************************************)
IsAspectCall == call.op = "constrain_aspect_ratio"

\* the call made on constraints (w, h) with the given ratio and width
Row(w, h, aspect_ratio, width) ==
    /\ IsAspectCall
    /\ call.self = BoxConstraints_new(Size_new(w, h))
    /\ call.aspect_ratio = aspect_ratio
    /\ call.width = width

\* equal as f64 values, a NaN matching a NaN
Same(a, b) == (is_nan(a) /\ is_nan(b)) \/ FEq(a, b)

SameSize(a, b) == Same(a.width, b.width) /\ Same(a.height, b.height)

\* 0 <= size <= exact on each axis
InsideBox(self, size) ==
    /\ FLe(Zero, size.width)
    /\ FLe(size.width, self.exact.width)
    /\ FLe(Zero, size.height)
    /\ FLe(size.height, self.exact.height)

\* C3 as stated: for every valid BoxConstraints c and every non-negative
\* aspect_ratio and width, c.contains(c.constrain_aspect_ratio(aspect_ratio, width)).
C3_Contained ==
    (IsAspectCall /\ BoxConstraints_debug_check(call.self)
        /\ NonNegative(call.aspect_ratio) /\ NonNegative(call.width)) =>
        BoxConstraints_contains(call.self, call.ret)

\* C4 as stated: for every BoxConstraints and every aspect_ratio and width,
\* negative ones included, the returned Size is inside [0, exact] on each axis.
C4_InsideBox ==
    IsAspectCall => InsideBox(call.self, call.ret)

SignPositive(x) == ~is_nan(x) /\ x.s = 0

C7_TableRows ==
    /\ Row(Lit(100), Lit(100), Lit(1), Lit(5)) =>
            SizeEq(call.ret, Size_new(Lit(10), Lit(10)))
    /\ Row(Lit(60), Lit(100), Lit(2), Lit(30)) =>
            SizeEq(call.ret, Size_new(Lit(45), Lit(90)))
    /\ Row(Lit(100), Lit(60), Frac(1, 2), Lit(60)) =>
            SizeEq(call.ret, Size_new(Lit(90), Lit(45)))
    /\ Row(Lit(40), Lit(40), Lit(10), Lit(30)) =>
            SizeEq(call.ret, Size_new(Lit(20), Lit(40)))
    /\ Row(Lit(40), Lit(40), Frac(1, 10), Lit(30)) =>
            SizeEq(call.ret, Size_new(Lit(40), Lit(20)))

\* |a - b|
Dist(a, b) == FAbs(FSub(a, b))

\* x is at least as near to width as y is; for an infinite width, at least
\* as large
Nearer(x, y, width) ==
    IF is_infinite(width) THEN FLe(y, x) ELSE FLe(Dist(x, width), Dist(y, width))

\* candidate widths: the inputs of the model, the box's width, the supplied
\* width and the width at which the ratio line meets the box's height
Candidates ==
    AspectWidths \cup {call.self.exact.width, call.width,
                       FDiv(call.self.exact.height, call.aspect_ratio)}

\* C8 as stated: for valid constraints and non-negative aspect_ratio and
\* width, the returned height is aspect_ratio times the returned width, the
\* returned Size is inside [0, c.size()], and no Size of that ratio inside
\* the box has a width nearer to the supplied width.
C8_NearestOfRatio ==
    (IsAspectCall /\ BoxConstraints_debug_check(call.self)
        /\ SignPositive(call.aspect_ratio) /\ SignPositive(call.width)) =>
        /\ FEq(call.ret.height, FMul(call.aspect_ratio, call.ret.width))
        /\ InsideBox(call.self, call.ret)
        /\ \A x \in Candidates :
              InsideBox(call.self, Size_new(x, FMul(call.aspect_ratio, x))) =>
                  Nearer(call.ret.width, x, call.width)

\* C3 and C8 on the inputs where the code meets them: valid constraints
\* whose width is not -0.0, and for C8 a finite aspect_ratio, for C3 not an
\* infinite aspect_ratio together with a width bound of 0.
C3_ContainedElsewhere ==
    (IsAspectCall /\ BoxConstraints_debug_check(call.self)
        /\ call.self.exact.width.s = 0
        /\ SignPositive(call.aspect_ratio) /\ SignPositive(call.width)
        /\ ~(is_infinite(call.aspect_ratio) /\ IsZero(call.self.exact.width))) =>
        BoxConstraints_contains(call.self, call.ret)

C8_NearestOfRatioElsewhere ==
    (IsAspectCall /\ BoxConstraints_debug_check(call.self)
        /\ call.self.exact.width.s = 0
        /\ SignPositive(call.aspect_ratio) /\ ~is_infinite(call.aspect_ratio)
        /\ SignPositive(call.width)) =>
        /\ FEq(call.ret.height, FMul(call.aspect_ratio, call.ret.width))
        /\ InsideBox(call.self, call.ret)
        /\ \A x \in Candidates :
              InsideBox(call.self, Size_new(x, FMul(call.aspect_ratio, x))) =>
                  Nearer(call.ret.width, x, call.width)

(***************************************************************************)
(* The fill policy a container hands down, shrunk by the insets consumed   *)
(* on the way: one slot at a time (ContentFill::shrink, the result stored  *)
(* back in its slot) or both at once (shrink_constraints).                 *)
(***************************************************************************)
Amounts == Grid(MaxAmount, 1)

Policies == {Min, Max, MaxStretch} \cup {ContentFill_Constrain(l) : l \in Amounts}

NoBox == BoxConstraints_new(Size_new(Zero, Zero))

FillInit ==
    /\ fill \in {BiAxial_new(h, v) : h \in Policies, v \in Policies}
    /\ bc = NoBox
    /\ bar = NoBar
    /\ call = NoCall

\* a negative amount grows a limit: the model stops at MaxAmount
LimitInBounds(p) == p.tag = "Constrain" => p.limit.n <= MaxAmount

PolicyShrink ==
    /\ Idle
    /\ \E axis \in Axis, amount \in Amounts :
        \E r \in ContentFill_shrink(BiAxial_value_for_axis(fill, axis), amount) :
            /\ LimitInBounds(r)
            /\ fill' = BiAxial_set_for_axis(fill, axis, r)
            /\ call' = [op |-> "shrink", axis |-> axis,
                        self |-> BiAxial_value_for_axis(fill, axis),
                        amount |-> amount, ret |-> r]
            /\ UNCHANGED <<bc, bar>>

ShrinkConstraints ==
    /\ Idle
    /\ \E h \in Amounts, v \in Amounts :
        \E r \in BiAxial_shrink_constraints(fill, BiAxial_new(h, v)) :
            /\ LimitInBounds(r.horizontal)
            /\ LimitInBounds(r.vertical)
            /\ fill' = r
            /\ call' = [op |-> "shrink_constraints", self |-> fill,
                        shrink_amount |-> BiAxial_new(h, v), ret |-> r]
            /\ UNCHANGED <<bc, bar>>

FillNext == PolicyShrink \/ ShrinkConstraints \/ Return

FillSpec == FillInit /\ [][FillNext]_vars

(***************************************************************************)
(* Claims on ContentFill::shrink and shrink_constraints (checked under     *)
(* FillSpec).                                                              *)
(***************************************************************************)
\* q is p shrunk by amount: p itself unless p is Constrain(limit), and then
\* Constrain(limit - amount) if that is positive and Constrain(0) if not
ShrunkBy(p, amount, q) ==
    IF p.tag # "Constrain"
    THEN q = p
    ELSE /\ q.tag = "Constrain"
         /\ IF FGt(FSub(p.limit, amount), Zero)
            THEN q.limit = FSub(p.limit, amount)
            ELSE IsZero(q.limit)

\* C9: shrink returns Min, Max and MaxStretch unchanged and turns
\* Constrain(limit) into Constrain(max(limit - amount, 0));
\* Constrain(5).shrink(2) == Constrain(3), Constrain(2).shrink(5) ==
\* Constrain(0); shrink_constraints shrinks the horizontal slot by the
\* horizontal delta and the vertical slot by the vertical delta.
C9_Shrink ==
    /\ call.op = "shrink" =>
          /\ ShrunkBy(call.self, call.amount, call.ret)
          /\ (call.self = ContentFill_Constrain(Lit(5)) /\ call.amount = Lit(2)) =>
                call.ret = ContentFill_Constrain(Lit(3))
          /\ (call.self = ContentFill_Constrain(Lit(2)) /\ call.amount = Lit(5)) =>
                call.ret = ContentFill_Constrain(Zero)
    /\ call.op = "shrink_constraints" =>
          /\ ShrunkBy(call.self.horizontal, call.shrink_amount.horizontal,
                      call.ret.horizontal)
          /\ ShrunkBy(call.self.vertical, call.shrink_amount.vertical,
                      call.ret.vertical)

\* shrink_constraints on (Constrain(5), Constrain(2)) by (2, 5)
C9_Witness ==
    /\ call.op = "shrink_constraints"
    /\ call.self = BiAxial_new(ContentFill_Constrain(Lit(5)),
                               ContentFill_Constrain(Lit(2)))
    /\ call.shrink_amount = BiAxial_new(Lit(2), Lit(5))
    /\ call.ret = BiAxial_new(ContentFill_Constrain(Lit(3)),
                              ContentFill_Constrain(Zero))
    /\ fill = call.ret

\* Constrain(limit) with limit >= 0
ConstrainNonNegative(p) == p.tag = "Constrain" /\ FGe(p.limit, Zero)

\* the amount the step being taken shrinks the slot of axis by, if any
Shrinks(axis, amount) ==
    \/ call'.op = "shrink" /\ call'.axis = axis /\ call'.amount = amount
    \/ /\ call'.op = "shrink_constraints"
       /\ BiAxial_value_for_axis(call'.shrink_amount, axis) = amount

\* C10: a slot holding Constrain(limit) with limit >= 0 holds, after every
\* step, a Constrain whose limit is >= 0, whatever the amount; and a step
\* that shrinks it by a non-negative amount does not increase the limit.
C10_LimitStaysNonNegative ==
    [][\A axis \in Axis :
        ConstrainNonNegative(BiAxial_value_for_axis(fill, axis)) =>
            /\ ConstrainNonNegative(BiAxial_value_for_axis(fill', axis))
            /\ \A amount \in Amounts :
                  (Shrinks(axis, amount) /\ FGe(amount, Zero)) =>
                      FLe(BiAxial_value_for_axis(fill', axis).limit,
                          BiAxial_value_for_axis(fill, axis).limit)]_vars

\* a limit of 2 shrunk by 5 is floored at 0 while the other slot, shrunk by
\* -1, grows from 1 to 2
C10_Witness ==
    /\ call.op = "shrink_constraints"
    /\ call.self = BiAxial_new(ContentFill_Constrain(Lit(2)),
                               ContentFill_Constrain(Lit(1)))
    /\ call.shrink_amount = BiAxial_new(Lit(5), Lit(-1))
    /\ fill = BiAxial_new(ContentFill_Constrain(Zero),
                          ContentFill_Constrain(Lit(2)))

(***************************************************************************)
(* Option<f64>                                                             *)
(***************************************************************************)
None == [some |-> FALSE]

Some(x) == [some |-> TRUE, value |-> x]

(***************************************************************************)
(* The queries of BiAxial<ContentFill>.                                    *)
(***************************************************************************)
BiAxial_both_axes_constrained(self) ==
    self.horizontal.tag = "Constrain" /\ self.vertical.tag = "Constrain"

\* true as soon as one slot is Constrain
Mut_any_axis_constrained(self) ==
    self.horizontal.tag = "Constrain" \/ self.vertical.tag = "Constrain"

BiAxial_horizontal_constrained(self) == self.horizontal.tag = "Constrain"

\* the height-bound branch answering the vertical query with the vertical
\* limit
Mut_constrain_aspect_ratio_own_limit(self, aspect_ratio, axis) ==
    IF self.horizontal.tag = "Constrain" /\ self.vertical.tag = "Constrain"
    THEN LET h == self.horizontal.limit
             v == self.vertical.limit
             constraint_ratio == FDiv(h, v)
         IN  IF FGt(constraint_ratio, aspect_ratio)
             THEN IF axis = "Vertical"
                  THEN Some(v)
                  ELSE Some(FMul(recip(aspect_ratio), h))
             ELSE IF axis = "Horizontal"
                  THEN Some(h)
                  ELSE Some(FMul(aspect_ratio, v))
    ELSE IF self.horizontal.tag = "Constrain" /\ axis = "Horizontal"
         THEN Some(self.horizontal.limit)
    ELSE IF self.vertical.tag = "Constrain" /\ axis = "Vertical"
         THEN Some(self.vertical.limit)
    ELSE None

\* a single Constrain slot answering the query for either axis
Mut_constrain_aspect_ratio_any_axis(self, aspect_ratio, axis) ==
    IF self.horizontal.tag = "Constrain" /\ self.vertical.tag = "Constrain"
    THEN LET h == self.horizontal.limit
             v == self.vertical.limit
             constraint_ratio == FDiv(h, v)
         IN  IF FGt(constraint_ratio, aspect_ratio)
             THEN IF axis = "Vertical"
                  THEN Some(h)
                  ELSE Some(FMul(recip(aspect_ratio), h))
             ELSE IF axis = "Horizontal"
                  THEN Some(h)
                  ELSE Some(FMul(aspect_ratio, v))
    ELSE IF self.horizontal.tag = "Constrain"
         THEN Some(self.horizontal.limit)
    ELSE IF self.vertical.tag = "Constrain"
         THEN Some(self.vertical.limit)
    ELSE None

\* the match of lines 77-97, arm by arm
BiAxial_constrain_aspect_ratio(self, aspect_ratio, axis) ==
    IF self.horizontal.tag = "Constrain" /\ self.vertical.tag = "Constrain"
    THEN LET h == self.horizontal.limit
             v == self.vertical.limit
             constraint_ratio == FDiv(h, v)
         IN  IF FGt(constraint_ratio, aspect_ratio)
             THEN IF axis = "Vertical"
                  THEN Some(h)
                  ELSE Some(FMul(recip(aspect_ratio), h))
             ELSE IF axis = "Horizontal"
                  THEN Some(h)
                  ELSE Some(FMul(aspect_ratio, v))
    ELSE IF self.horizontal.tag = "Constrain" /\ axis = "Horizontal"
         THEN Some(self.horizontal.limit)
    ELSE IF self.vertical.tag = "Constrain" /\ axis = "Vertical"
         THEN Some(self.vertical.limit)
    ELSE None

(***************************************************************************)
(* A BiAxial<ContentFill> queried by the widget it was handed to: for the  *)
(* bound an aspect ratio puts on one axis, and for which slots are         *)
(* Constrain.  The limits are the f64 grid.                                *)
(***************************************************************************)
QueryPolicies ==
    {Min, Max, MaxStretch} \cup {ContentFill_Constrain(l) : l \in F64s}

QueryInit ==
    /\ fill \in {BiAxial_new(h, v) : h \in QueryPolicies, v \in QueryPolicies}
    /\ bc = NoBox
    /\ bar = NoBar
    /\ call = NoCall

FillConstrainAspectRatio ==
    /\ Idle
    /\ \E aspect_ratio \in F64s, axis \in Axis :
        /\ call' = [op |-> "BiAxial::constrain_aspect_ratio", self |-> fill,
                    aspect_ratio |-> aspect_ratio, axis |-> axis,
                    ret |-> BiAxial_constrain_aspect_ratio(fill, aspect_ratio, axis)]
        /\ UNCHANGED <<bc, fill, bar>>

BothAxesConstrained ==
    /\ Idle
    /\ call' = [op |-> "both_axes_constrained", self |-> fill,
                ret |-> BiAxial_both_axes_constrained(fill)]
    /\ UNCHANGED <<bc, fill, bar>>

HorizontalConstrained ==
    /\ Idle
    /\ call' = [op |-> "horizontal_constrained", self |-> fill,
                ret |-> BiAxial_horizontal_constrained(fill)]
    /\ UNCHANGED <<bc, fill, bar>>

QueryNext ==
    FillConstrainAspectRatio \/ BothAxesConstrained \/ HorizontalConstrained
        \/ Return

QuerySpec == QueryInit /\ [][QueryNext]_vars

(***************************************************************************)
(* Claims on the queries of BiAxial<ContentFill> (checked under            *)
(* QuerySpec).                                                             *)
(***************************************************************************)
IsRatioQuery == call.op = "BiAxial::constrain_aspect_ratio"

IsConstrain(p) == p.tag = "Constrain"

C12_SomeIffConstrain ==
    /\ IsRatioQuery =>
          LET own == BiAxial_value_for_axis(call.self, call.axis)
              both == IsConstrain(call.self.horizontal)
                          /\ IsConstrain(call.self.vertical)
          IN  /\ call.ret.some <=> IsConstrain(own)
              /\ (IsConstrain(own) /\ ~both) => call.ret = Some(own.limit)
              /\ ~IsConstrain(own) => call.ret = None
    /\ call.op = "both_axes_constrained" =>
          (call.ret <=> (IsConstrain(call.self.horizontal)
                            /\ IsConstrain(call.self.vertical)))
    /\ call.op = "horizontal_constrained" =>
          (call.ret <=> IsConstrain(call.self.horizontal))

\* only the horizontal slot is Constrain and the query is for the vertical
\* axis: None
C12_Witness ==
    /\ IsRatioQuery
    /\ call.self = BiAxial_new(ContentFill_Constrain(Lit(2)), Max)
    /\ call.axis = "Vertical"
    /\ call.ret = None

(***************************************************************************)
(* The methods of Axis.  A kurbo Rect is [x0, y0, x1, y1], a Point and a   *)
(* Vec2 are [x, y]; a Rust pair is a TLA+ pair.                            *)
(***************************************************************************)
Axis_cross(self) == IF self = "Horizontal" THEN "Vertical" ELSE "Horizontal"

Axis_major(self, size) ==
    IF self = "Horizontal" THEN size.width ELSE size.height

\* minor reading the axis itself
Mut_minor(self, size) == Axis_major(self, size)

Axis_minor(self, size) == Axis_major(Axis_cross(self), size)

Axis_major_span(self, rect) ==
    IF self = "Horizontal" THEN <<rect.x0, rect.x1>> ELSE <<rect.y0, rect.y1>>

Axis_minor_span(self, rect) == Axis_major_span(Axis_cross(self), rect)

Axis_major_pos(self, pos) == IF self = "Horizontal" THEN pos.x ELSE pos.y

Axis_major_vec(self, vec) == IF self = "Horizontal" THEN vec.x ELSE vec.y

Axis_minor_pos(self, pos) == Axis_major_pos(Axis_cross(self), pos)

Axis_minor_vec(self, vec) == Axis_major_vec(Axis_cross(self), vec)

\* pack with the major value always first
Mut_pack(self, major, minor) == <<major, minor>>

Axis_pack(self, major, minor) ==
    IF self = "Horizontal" THEN <<major, minor>> ELSE <<minor, major>>

\* constraints carrying over the major component and replacing the minor one
Mut_constraints(self, c, major) ==
    IF self = "Horizontal"
    THEN BoxConstraints_new(Size_new(BoxConstraints_size(c).width, major))
    ELSE BoxConstraints_new(Size_new(major, BoxConstraints_size(c).height))

\* Axis::constraints(self, bc, major)
Axis_constraints(self, c, major) ==
    IF self = "Horizontal"
    THEN BoxConstraints_new(Size_new(major, BoxConstraints_size(c).height))
    ELSE BoxConstraints_new(Size_new(BoxConstraints_size(c).width, major))

(***************************************************************************)
(* The constraints handed down a widget tree: built by new, and derived    *)
(* from the parent's by shrink and by Axis::constraints.                   *)
(***************************************************************************)
AxisConstraints ==
    /\ Idle
    /\ \E axis \in Axis, major \in F64s :
        /\ bc' = Axis_constraints(axis, bc, major)
        /\ call' = [op |-> "Axis::constraints", self |-> axis, bc |-> bc,
                    major |-> major, ret |-> bc']
        /\ UNCHANGED <<fill, bar>>

LifeNext == New \/ Shrink \/ AxisConstraints \/ Return

LifeSpec == Init /\ [][LifeNext]_vars

(***************************************************************************)
(* Claims on derived constraints (checked under LifeSpec).                 *)
(***************************************************************************)
IsAxisConstraints == call.op = "Axis::constraints"

\* C13: a.constraints(bc, m) is a BoxConstraints whose size along a is
\* expand(m) and whose size along a.cross() is that of bc, unchanged.
C13_ConstraintsReplaceMajor ==
    IsAxisConstraints =>
        /\ Axis_major(call.self, BoxConstraints_size(call.ret))
              = f64_expand(call.major)
        /\ Axis_major(Axis_cross(call.self), BoxConstraints_size(call.ret))
              = Axis_major(Axis_cross(call.self), BoxConstraints_size(call.bc))

\* Vertical.constraints((2, 3), 1/2) is (2, 1)
C13_Witness ==
    /\ IsAxisConstraints
    /\ call.self = "Vertical"
    /\ call.bc = BoxConstraints_new(Size_new(Lit(2), Lit(3)))
    /\ call.major = Frac(1, 2)
    /\ BoxConstraints_size(call.ret) = Size_new(Lit(2), Lit(1))
    /\ bc = call.ret

(***************************************************************************)
(* BiAxial<T> edited slot by slot, with T = ContentFill.                   *)
(***************************************************************************)
\* new_by_axis taking major for the horizontal slot whatever the axis
Mut_new_by_axis(major, minor, axis) == BiAxial_new(major, minor)

BiAxial_new_by_axis(major, minor, axis) ==
    IF axis = "Horizontal"
    THEN BiAxial_new(major, minor)
    ELSE BiAxial_new(minor, major)

ValueForAxis ==
    /\ Idle
    /\ \E axis \in Axis :
        /\ call' = [op |-> "value_for_axis", self |-> fill, axis |-> axis,
                    ret |-> BiAxial_value_for_axis(fill, axis)]
        /\ UNCHANGED <<bc, fill, bar>>

SetForAxis ==
    /\ Idle
    /\ \E axis \in Axis, value \in Policies :
        /\ fill' = BiAxial_set_for_axis(fill, axis, value)
        /\ call' = [op |-> "set_for_axis", self |-> fill, axis |-> axis,
                    value |-> value, ret |-> fill']
        /\ UNCHANGED <<bc, bar>>

NewByAxis ==
    /\ Idle
    /\ \E major \in Policies, minor \in Policies, axis \in Axis :
        /\ fill' = BiAxial_new_by_axis(major, minor, axis)
        /\ call' = [op |-> "new_by_axis", major |-> major, minor |-> minor,
                    axis |-> axis, ret |-> fill']
        /\ UNCHANGED <<bc, bar>>

BiAxialNext == ValueForAxis \/ SetForAxis \/ NewByAxis \/ Return

BiAxialSpec == FillInit /\ [][BiAxialNext]_vars

(***************************************************************************)
(* Claims on BiAxial<T> (checked under BiAxialSpec).                       *)
(***************************************************************************)
\* C14: b.set_for_axis(a, v).value_for_axis(a) is v and
\* b.set_for_axis(a, v).value_for_axis(a.cross()) is b.value_for_axis(a.cross());
\* new_by_axis(major, minor, a) has value_for_axis(a) equal to major and
\* value_for_axis(a.cross()) equal to minor.
C14_SetThenGet ==
    /\ call.op = "set_for_axis" =>
          /\ BiAxial_value_for_axis(call.ret, call.axis) = call.value
          /\ BiAxial_value_for_axis(call.ret, Axis_cross(call.axis))
                = BiAxial_value_for_axis(call.self, Axis_cross(call.axis))
    /\ call.op = "new_by_axis" =>
          /\ BiAxial_value_for_axis(call.ret, call.axis) = call.major
          /\ BiAxial_value_for_axis(call.ret, Axis_cross(call.axis)) = call.minor

\* new_by_axis(Constrain(2), Max, Vertical) holds Max in the horizontal slot
\* and Constrain(2) in the vertical one
C14_Witness ==
    /\ call.op = "new_by_axis"
    /\ call.major = ContentFill_Constrain(Lit(2))
    /\ call.minor = Max
    /\ call.axis = "Vertical"
    /\ fill = BiAxial_new(Max, ContentFill_Constrain(Lit(2)))

(***************************************************************************)
(* The methods of Axis applied to the sizes, rectangles, points and        *)
(* vectors of the f64 grid.                                                *)
(***************************************************************************)
\* rectangle coordinates are the integers up to MaxCoord (and the specials)
MaxCoord == 2

Coords == Grid(MaxCoord, 1)

Rects ==
    {[x0 |-> x0, y0 |-> y0, x1 |-> x1, y1 |-> y1] :
        x0 \in Coords, y0 \in Coords, x1 \in Coords, y1 \in Coords}

\* the values of Point and of Vec2
Pairs == {[x |-> x, y |-> y] : x \in F64s, y \in F64s}

AxisInit ==
    /\ bc = NoBox
    /\ fill = NoFill
    /\ bar = NoBar
    /\ call = NoCall

Cross ==
    /\ Idle
    /\ \E axis \in Axis :
        /\ call' = [op |-> "cross", self |-> axis, ret |-> Axis_cross(axis)]
        /\ UNCHANGED <<bc, fill, bar>>

Major ==
    /\ Idle
    /\ \E axis \in Axis, size \in Sizes :
        /\ call' = [op |-> "major", self |-> axis, size |-> size,
                    ret |-> Axis_major(axis, size)]
        /\ UNCHANGED <<bc, fill, bar>>

Minor ==
    /\ Idle
    /\ \E axis \in Axis, size \in Sizes :
        /\ call' = [op |-> "minor", self |-> axis, size |-> size,
                    ret |-> Axis_minor(axis, size)]
        /\ UNCHANGED <<bc, fill, bar>>

MajorSpan ==
    /\ Idle
    /\ \E axis \in Axis, rect \in Rects :
        /\ call' = [op |-> "major_span", self |-> axis, rect |-> rect,
                    ret |-> Axis_major_span(axis, rect)]
        /\ UNCHANGED <<bc, fill, bar>>

MinorSpan ==
    /\ Idle
    /\ \E axis \in Axis, rect \in Rects :
        /\ call' = [op |-> "minor_span", self |-> axis, rect |-> rect,
                    ret |-> Axis_minor_span(axis, rect)]
        /\ UNCHANGED <<bc, fill, bar>>

MajorPos ==
    /\ Idle
    /\ \E axis \in Axis, pos \in Pairs :
        /\ call' = [op |-> "major_pos", self |-> axis, pos |-> pos,
                    ret |-> Axis_major_pos(axis, pos)]
        /\ UNCHANGED <<bc, fill, bar>>

MinorPos ==
    /\ Idle
    /\ \E axis \in Axis, pos \in Pairs :
        /\ call' = [op |-> "minor_pos", self |-> axis, pos |-> pos,
                    ret |-> Axis_minor_pos(axis, pos)]
        /\ UNCHANGED <<bc, fill, bar>>

MajorVec ==
    /\ Idle
    /\ \E axis \in Axis, vec \in Pairs :
        /\ call' = [op |-> "major_vec", self |-> axis, vec |-> vec,
                    ret |-> Axis_major_vec(axis, vec)]
        /\ UNCHANGED <<bc, fill, bar>>

MinorVec ==
    /\ Idle
    /\ \E axis \in Axis, vec \in Pairs :
        /\ call' = [op |-> "minor_vec", self |-> axis, vec |-> vec,
                    ret |-> Axis_minor_vec(axis, vec)]
        /\ UNCHANGED <<bc, fill, bar>>

Pack ==
    /\ Idle
    /\ \E axis \in Axis, major \in F64s, minor \in F64s :
        /\ call' = [op |-> "pack", self |-> axis, major |-> major,
                    minor |-> minor, ret |-> Axis_pack(axis, major, minor)]
        /\ UNCHANGED <<bc, fill, bar>>

AxisNext ==
    \/ Cross
    \/ Major
    \/ Minor
    \/ MajorSpan
    \/ MinorSpan
    \/ MajorPos
    \/ MinorPos
    \/ MajorVec
    \/ MinorVec
    \/ Pack
    \/ Return

AxisSpec == AxisInit /\ [][AxisNext]_vars

(***************************************************************************)
(* Claims on Axis (checked under AxisSpec).                                *)
(***************************************************************************)
\* C15: cross swaps the two values (Horizontal.cross() == Vertical,
\* Vertical.cross() == Horizontal) and a.cross().cross() == a; minor,
\* minor_span, minor_pos and minor_vec on axis a return what major,
\* major_span, major_pos and major_vec return on a.cross().
C15_CrossAndMinor ==
    /\ call.op = "cross" =>
          /\ call.self = "Horizontal" => call.ret = "Vertical"
          /\ call.self = "Vertical" => call.ret = "Horizontal"
          /\ Axis_cross(call.ret) = call.self
    /\ call.op = "minor" =>
          /\ call.ret = Axis_major(Axis_cross(call.self), call.size)
          /\ call.ret = (IF call.self = "Horizontal"
                         THEN call.size.height ELSE call.size.width)
    /\ call.op = "minor_span" =>
          /\ call.ret = Axis_major_span(Axis_cross(call.self), call.rect)
          /\ call.ret = (IF call.self = "Horizontal"
                         THEN <<call.rect.y0, call.rect.y1>>
                         ELSE <<call.rect.x0, call.rect.x1>>)
    /\ call.op = "minor_pos" =>
          /\ call.ret = Axis_major_pos(Axis_cross(call.self), call.pos)
          /\ call.ret = (IF call.self = "Horizontal"
                         THEN call.pos.y ELSE call.pos.x)
    /\ call.op = "minor_vec" =>
          /\ call.ret = Axis_major_vec(Axis_cross(call.self), call.vec)
          /\ call.ret = (IF call.self = "Horizontal"
                         THEN call.vec.y ELSE call.vec.x)

\* Horizontal.minor((1, 2)) is the height, 2
C15_Witness ==
    /\ call.op = "minor"
    /\ call.self = "Horizontal"
    /\ call.size = Size_new(Lit(1), Lit(2))
    /\ call.ret = Lit(2)

\* C16: a.pack(a.major(s), a.minor(s)) is (s.width, s.height) for both axes
\* and every Size s: pack puts the major value first for Horizontal and
\* second for Vertical.
C16_PackRoundTrip ==
    call.op = "pack" =>
        /\ call.self = "Horizontal" => call.ret = <<call.major, call.minor>>
        /\ call.self = "Vertical" => call.ret = <<call.minor, call.major>>
        /\ \A s \in Sizes :
              (/\ call.major = Axis_major(call.self, s)
               /\ call.minor = Axis_minor(call.self, s)) =>
                  call.ret = <<s.width, s.height>>

\* Vertical.pack(2, 1), the major and minor of the size (1, 2), is (1, 2)
C16_Witness ==
    /\ call.op = "pack"
    /\ call.self = "Vertical"
    /\ call.major = Axis_major("Vertical", Size_new(Lit(1), Lit(2)))
    /\ call.minor = Axis_minor("Vertical", Size_new(Lit(1), Lit(2)))
    /\ call.ret = <<Lit(1), Lit(2)>>

\* debug_check, lines 89-92: the test that reports "Unexpanded BoxConstraints"
BoxConstraints_unexpanded(self) == ~SizeEq(Size_expand(self.exact), self.exact)

\* C17 as stated: every BoxConstraints reachable by new, shrink and
\* Axis::constraints, on any input sizes, satisfies expand(exact) == exact,
\* so debug_check never reports "Unexpanded BoxConstraints" for it.
C17_Expanded == ~BoxConstraints_unexpanded(bc)

\* C17, amended: every BoxConstraints reachable by new, shrink and
\* Axis::constraints has an exact size that expand leaves bit for bit as it
\* is, and satisfies expand(exact) == exact unless a component is NaN; the
\* test for "Unexpanded BoxConstraints" is true only of constraints that
\* debug_check has reported as NaN before it.
C17_ExpandedUnlessNaN ==
    /\ Size_expand(bc.exact) = bc.exact
    /\ ~HasNaN(bc.exact) => ~BoxConstraints_unexpanded(bc)
    /\ BoxConstraints_unexpanded(bc) =>
          (is_nan(bc.exact.width) \/ is_nan(bc.exact.height))

\* (3, 3) shrunk by (1/2, 3/2): the diff is expanded to (1, 2) and the
\* result is (2, 1)
C17_Witness ==
    /\ call.op = "shrink"
    /\ call.self = BoxConstraints_new(Size_new(Lit(3), Lit(3)))
    /\ call.diff = Size_new(Frac(1, 2), Frac(3, 2))
    /\ bc.exact = Size_new(Lit(2), Lit(1))
    /\ ~BoxConstraints_unexpanded(bc)

(***************************************************************************)
(* Equality and hashing of ContentFill.                                    *)
(***************************************************************************)
\* f64::to_bits: the sign bit, then the exponent and mantissa (here the
\* class and the magnitude they encode)
to_bits(x) == <<x.s, x.k, x.n, x.d>>

\* derive(PartialEq): the same variant, and for Constrain limits that are ==
ContentFill_eq(self, other) ==
    /\ self.tag = other.tag
    /\ self.tag = "Constrain" => FEq(self.limit, other.limit)

\* impl Hash: what hash writes to the hasher, in order
ContentFill_hash(self) ==
    CASE self.tag = "Max" -> <<1>>
      [] self.tag = "Min" -> <<2>>
      [] self.tag = "MaxStretch" -> <<3>>
      [] self.tag = "Constrain" -> <<4, to_bits(self.limit)>>

HashInit ==
    /\ bc = NoBox
    /\ fill = NoFill
    /\ bar = NoBar
    /\ call = NoCall

Eq ==
    /\ Idle
    /\ \E self \in QueryPolicies, other \in QueryPolicies :
        /\ call' = [op |-> "eq", self |-> self, other |-> other,
                    ret |-> ContentFill_eq(self, other)]
        /\ UNCHANGED <<bc, fill, bar>>

Hash ==
    /\ Idle
    /\ \E self \in QueryPolicies :
        /\ call' = [op |-> "hash", self |-> self, ret |-> ContentFill_hash(self)]
        /\ UNCHANGED <<bc, fill, bar>>

HashNext == Eq \/ Hash \/ Return

HashSpec == HashInit /\ [][HashNext]_vars

(***************************************************************************)
(* Claims on equality and hashing (checked under HashSpec).                *)
(***************************************************************************)
\* C18: two ContentFill values are equal exactly when they feed the same
\* bytes to the hasher: the four variants write four distinct tags,
\* Constrain also writes the bit pattern of its limit, and Constrain(x) ==
\* Constrain(y) iff x and y have the same bit pattern (so equal values hash
\* equal, limits +0.0 and -0.0 included).
C18_EqIffSameBytes ==
    /\ call.op = "eq" =>
          /\ call.ret <=>
                (ContentFill_hash(call.self) = ContentFill_hash(call.other))
          /\ (call.self.tag = "Constrain" /\ call.other.tag = "Constrain") =>
                (call.ret <=>
                    (to_bits(call.self.limit) = to_bits(call.other.limit)))
    /\ call.op = "hash" =>
          /\ call.ret[1] = (CASE call.self.tag = "Max" -> 1
                              [] call.self.tag = "Min" -> 2
                              [] call.self.tag = "MaxStretch" -> 3
                              [] call.self.tag = "Constrain" -> 4)
          /\ call.self.tag = "Constrain" =>
                call.ret = <<4, to_bits(call.self.limit)>>

\* what does hold: away from zero and NaN limits, equality and the bytes
\* hashed agree
C18_EqIffSameBytesElsewhere ==
    (/\ call.op = "eq"
     /\ call.self.tag = "Constrain" =>
            ~is_nan(call.self.limit) /\ ~IsZero(call.self.limit)) =>
        (call.ret <=>
            (ContentFill_hash(call.self) = ContentFill_hash(call.other)))

(***************************************************************************)
(* ProgressBar.  bar is the widget: its progress and the text last given   *)
(* to its label (by Label::new or Label::set_text).  A text is the         *)
(* sequence of its parts, <<sign, integer, "%">>, and <<>> when empty.     *)
(***************************************************************************)
\* f64::clamp
f64_clamp(x, min, max) ==
    IF FLt(x, min) THEN min ELSE IF FGt(x, max) THEN max ELSE x

clamp_progress(progress) ==
    IF progress.some
    THEN IF is_nan(progress.value)
         THEN None
         ELSE Some(f64_clamp(progress.value, Zero, One))
    ELSE progress

\* format!("{:.0}%", x) for a finite x: its sign, the integer nearest to its
\* magnitude (a tie goes to the even one), and the percent sign
format_percent(x) ==
    LET q == x.n \div x.d
        r == x.n % x.d
        rounded == IF 2 * r > x.d THEN q + 1
                   ELSE IF 2 * r = x.d THEN q + (q % 2)
                   ELSE q
    IN  <<IF x.s = 1 THEN "-" ELSE "", rounded, "%">>

ProgressBar_value(progress) ==
    IF progress.some
    THEN format_percent(FMul(progress.value, Lit(100)))
    ELSE <<>>

ProgressBar_new(progress) ==
    LET clamped == clamp_progress(progress)
    IN  [progress |-> clamped, label_text |-> ProgressBar_value(clamped)]

\* Option<f64> != Option<f64>
Option_ne(a, b) ==
    IF a.some /\ b.some THEN ~FEq(a.value, b.value) ELSE a.some # b.some

\* the widget after set_progress
ProgressBar_set_progress(self, progress) ==
    LET clamped == clamp_progress(progress)
        progress_changed == Option_ne(self.progress, clamped)
    IN  IF progress_changed
        THEN [progress |-> clamped, label_text |-> ProgressBar_value(clamped)]
        ELSE self

DEFAULT_WIDTH == Lit(400)

\* layout returning the desired size as it is
Mut_layout(c, label_size, basic_widget_height) ==
    {[ret |-> final_size, placed |-> <<[x |-> x, y |-> y]>>] :
        final_size \in
            {Size_new(w, h) :
                w \in f64_max(DEFAULT_WIDTH, label_size.width),
                h \in f64_max(basic_widget_height, label_size.height)},
        x \in f64_max(FMul(FSub(c.exact.width, label_size.width), Frac(1, 2)), Zero),
        y \in f64_max(FMul(FSub(c.exact.height, label_size.height), Frac(1, 2)), Zero)}

\* layout, given the size run_layout returned for the label and the theme's
\* BASIC_WIDGET_HEIGHT: the sizes it may return, each with the place_child
\* calls it makes
ProgressBar_layout(c, label_size, basic_widget_height) ==
    LET desired_sizes ==
            {Size_new(w, h) :
                w \in f64_max(DEFAULT_WIDTH, label_size.width),
                h \in f64_max(basic_widget_height, label_size.height)}
        final_sizes ==
            UNION {BoxConstraints_constrain(c, desired_size) :
                      desired_size \in desired_sizes}
        text_pos(final_size) ==
            {[x |-> x, y |-> y] :
                x \in f64_max(FMul(FSub(final_size.width, label_size.width),
                                   Frac(1, 2)), Zero),
                y \in f64_max(FMul(FSub(final_size.height, label_size.height),
                                   Frac(1, 2)), Zero)}
    IN  UNION {{[ret |-> final_size, placed |-> <<pos>>] :
                   pos \in text_pos(final_size)} :
               final_size \in final_sizes}

(***************************************************************************)
(* A ProgressBar built by new, edited by set_progress and laid out.        *)
(***************************************************************************)
\* the eighths give percentages that need rounding
ProgressInputs ==
    {None} \cup {Some(x) : x \in F64s \cup {Frac(1, 8), Frac(3, 8)}}

\* the constraints a parent passes to layout
LayoutConstraints ==
    {BoxConstraints_new(Size_new(w, h)) : w \in Coords, h \in Coords}

\* the sizes run_layout may report for the label
LabelSizes == {Size_new(w, h) : w \in Coords, h \in Coords}

\* theme::BASIC_WIDGET_HEIGHT is defined outside these sources: a positive
\* height
ThemeHeights == {Lit(i) : i \in 1..MaxCoord}

ProgressInit ==
    /\ bar \in {ProgressBar_new(progress) : progress \in ProgressInputs}
    /\ bc = NoBox
    /\ fill = NoFill
    /\ call = NoCall

SetProgress ==
    /\ Idle
    /\ \E progress \in ProgressInputs :
        /\ bar' = ProgressBar_set_progress(bar, progress)
        /\ call' = [op |-> "set_progress", self |-> bar, progress |-> progress,
                    requested |-> <<"layout", "render">>]
        /\ UNCHANGED <<bc, fill>>

Layout ==
    /\ Idle
    /\ \E c \in LayoutConstraints, label_size \in LabelSizes,
          basic_widget_height \in ThemeHeights :
        \E r \in ProgressBar_layout(c, label_size, basic_widget_height) :
            /\ call' = [op |-> "layout", bc |-> c, label_size |-> label_size,
                        basic_widget_height |-> basic_widget_height,
                        placed |-> r.placed, ret |-> r.ret]
            /\ UNCHANGED <<bc, fill, bar>>

ProgressNext == SetProgress \/ Layout \/ Return

ProgressSpec == ProgressInit /\ [][ProgressNext]_vars

(***************************************************************************)
(* Claims on ProgressBar (checked under ProgressSpec).                     *)
(***************************************************************************)
\* Option<f64> == Option<f64>
SameProgress(a, b) == ~Option_ne(a, b)

\* C19: after any sequence of set_progress calls on a bar created by new,
\* the stored progress and the label text are those of a fresh
\* ProgressBar::new(p) for the last p passed: progress is None (for None or
\* NaN) or the input clamped to [0, 1], the label text is its rounded
\* percentage (empty for None); and set_progress requests layout and render
\* on every call.
C19_SameAsFresh ==
    call.op = "set_progress" =>
        /\ SameProgress(bar.progress, ProgressBar_new(call.progress).progress)
        /\ bar.label_text = ProgressBar_new(call.progress).label_text
        /\ bar.label_text = ProgressBar_value(bar.progress)
        /\ call.requested = <<"layout", "render">>

\* what does hold: the same, unless the progress stored is a zero and the
\* clamped input is the zero of the other sign
C19_SameAsFreshElsewhere ==
    (/\ call.op = "set_progress"
     /\ ~(/\ call.self.progress.some
          /\ IsZero(call.self.progress.value)
          /\ clamp_progress(call.progress).some
          /\ IsZero(clamp_progress(call.progress).value)
          /\ call.self.progress # clamp_progress(call.progress))) =>
        /\ bar = ProgressBar_new(call.progress)
        /\ call.requested = <<"layout", "render">>

\* C20 as stated: layout(bc) returns exactly bc.size() for every size the
\* label reports, and the position it gives the label has both coordinates
\* >= 0, equal to max((final - label) / 2, 0) on each axis.
C20_LayoutIsSize ==
    call.op = "layout" =>
        /\ call.ret = BoxConstraints_size(call.bc)
        /\ Len(call.placed) = 1
        /\ FGe(call.placed[1].x, Zero)
        /\ FGe(call.placed[1].y, Zero)
        /\ call.placed[1].x \in
              f64_max(FDiv(FSub(call.ret.width, call.label_size.width), Lit(2)),
                      Zero)
        /\ call.placed[1].y \in
              f64_max(FDiv(FSub(call.ret.height, call.label_size.height), Lit(2)),
                      Zero)

\* C20, amended: for constraints with no NaN component layout(bc) returns
\* exactly bc.size(), for every size the label reports; and for all
\* constraints the position it gives the label has both coordinates >= 0,
\* equal to max((final - label) / 2, 0) on each axis.
C20_LayoutIsSizeNoNaN ==
    call.op = "layout" =>
        /\ ~HasNaN(call.bc.exact) => call.ret = BoxConstraints_size(call.bc)
        /\ Len(call.placed) = 1
        /\ FGe(call.placed[1].x, Zero)
        /\ FGe(call.placed[1].y, Zero)
        /\ call.placed[1].x \in
              f64_max(FDiv(FSub(call.ret.width, call.label_size.width), Lit(2)),
                      Zero)
        /\ call.placed[1].y \in
              f64_max(FDiv(FSub(call.ret.height, call.label_size.height), Lit(2)),
                      Zero)

\* constraints (2, 1) and a label of (1, 2), larger than them in height:
\* layout returns (2, 1) and places the label at (1/2, 0)
C20_Witness ==
    /\ call.op = "layout"
    /\ call.bc = BoxConstraints_new(Size_new(Lit(2), Lit(1)))
    /\ call.label_size = Size_new(Lit(1), Lit(2))
    /\ call.ret = Size_new(Lit(2), Lit(1))
    /\ call.placed = <<[x |-> Frac(1, 2), y |-> Zero]>>

(***************************************************************************)
(* The two passes on a ProgressBar, statement by statement.  While a pass  *)
(* runs, call is its frame: pc is the statement to execute next, placed    *)
(* the positions given to the label by place_child so far.                 *)
(***************************************************************************)
\* lines 113-124 of layout: run_layout has returned label_size; the locals
\* final_size and text_pos are computed
layout_run_layout(frame, label_size) ==
    LET desired_sizes ==
            {Size_new(w, h) :
                w \in f64_max(DEFAULT_WIDTH, label_size.width),
                h \in f64_max(frame.basic_widget_height, label_size.height)}
        final_sizes ==
            UNION {BoxConstraints_constrain(frame.bc, desired_size) :
                      desired_size \in desired_sizes}
        text_positions(final_size) ==
            {[x |-> x, y |-> y] :
                x \in f64_max(FMul(FSub(final_size.width, label_size.width),
                                   Frac(1, 2)), Zero),
                y \in f64_max(FMul(FSub(final_size.height, label_size.height),
                                   Frac(1, 2)), Zero)}
    IN  UNION {{[op |-> "layout", pc |-> "place_child", self |-> frame.self,
                 bc |-> frame.bc,
                 basic_widget_height |-> frame.basic_widget_height,
                 label_size |-> label_size, final_size |-> final_size,
                 text_pos |-> text_pos, placed |-> frame.placed] :
                   text_pos \in text_positions(final_size)} :
               final_size \in final_sizes}

\* place_child left out
Mut_layout_place_child(frame) == [frame EXCEPT !.pc = "return"]

\* line 125 of layout
layout_place_child(frame) ==
    [frame EXCEPT !.pc = "return", !.placed = Append(@, frame.text_pos)]

\* lines 130-141 of measure: run_measure has returned label_size; the
\* frames holding what measure may return
measure_run_measure(frame, label_size) ==
    LET min_size == IF frame.axis = "Horizontal"
                    THEN DEFAULT_WIDTH
                    ELSE frame.basic_widget_height
        widget_sizes == f64_max(label_size, min_size)
        policy == BiAxial_value_for_axis(frame.fill, frame.axis)
        rets == CASE policy.tag = "Max" -> widget_sizes
                  [] policy.tag = "Min" -> f64_min(label_size, min_size)
                  [] policy.tag = "Constrain" ->
                        UNION {f64_min(widget_size, policy.limit) :
                                  widget_size \in widget_sizes}
                  [] policy.tag = "MaxStretch" -> {INFINITY}
    IN  {[op |-> "measure", pc |-> "return", self |-> frame.self,
          axis |-> frame.axis, fill |-> frame.fill,
          basic_widget_height |-> frame.basic_widget_height,
          label_size |-> label_size, placed |-> frame.placed, ret |-> ret] :
            ret \in rets}

\* the dimensions the passes are run on
PassDims == {Zero, One, Lit(MaxCoord), INFINITY, NaN}

PassSizes == {Size_new(w, h) : w \in PassDims, h \in PassDims}

PassFills ==
    LET policies == {Min, Max, MaxStretch}
                        \cup {ContentFill_Constrain(l) : l \in PassDims}
    IN  {BiAxial_new(h, v) : h \in policies, v \in policies}

InPass == call.op \in {"layout", "measure"}

LayoutCall ==
    /\ Idle
    /\ \E size \in PassSizes, basic_widget_height \in ThemeHeights :
        /\ call' = [op |-> "layout", pc |-> "run_layout", self |-> bar,
                    bc |-> BoxConstraints_new(size),
                    basic_widget_height |-> basic_widget_height,
                    placed |-> <<>>]
        /\ UNCHANGED <<bc, fill, bar>>

RunLayout ==
    /\ call.op = "layout"
    /\ call.pc = "run_layout"
    /\ \E label_size \in PassSizes :
        /\ call' \in layout_run_layout(call, label_size)
        /\ UNCHANGED <<bc, fill, bar>>

PlaceChild ==
    /\ call.op = "layout"
    /\ call.pc = "place_child"
    /\ call' = layout_place_child(call)
    /\ UNCHANGED <<bc, fill, bar>>

MeasureCall ==
    /\ Idle
    /\ \E axis \in Axis, f \in PassFills, basic_widget_height \in ThemeHeights :
        /\ call' = [op |-> "measure", pc |-> "run_measure", self |-> bar,
                    axis |-> axis, fill |-> f,
                    basic_widget_height |-> basic_widget_height,
                    placed |-> <<>>]
        /\ UNCHANGED <<bc, fill, bar>>

RunMeasure ==
    /\ call.op = "measure"
    /\ call.pc = "run_measure"
    /\ \E label_size \in PassDims :
        /\ call' \in measure_run_measure(call, label_size)
        /\ UNCHANGED <<bc, fill, bar>>

\* a pass returns once its last statement is reached; set_progress is one
\* step
PassReturn ==
    /\ \/ call.op = "set_progress"
       \/ InPass /\ call.pc = "return"
    /\ call' = NoCall
    /\ UNCHANGED <<bc, fill, bar>>

PassNext ==
    \/ SetProgress
    \/ MeasureCall
    \/ RunMeasure
    \/ LayoutCall
    \/ RunLayout
    \/ PlaceChild
    \/ PassReturn

PassSpec == ProgressInit /\ [][PassNext]_vars

(***************************************************************************)
(* Claims on the two passes (checked under PassSpec).                      *)
(***************************************************************************)
\* the positions given to the label by the pass in progress
Placed(frame) == IF frame.op \in {"layout", "measure"} THEN frame.placed ELSE <<>>

\* C21: the label is placed only inside layout, exactly once per layout
\* call, after that call's run_layout has returned the label's size and
\* before layout returns; measure runs the label's measure and never places
\* the child or changes the widget's progress.
C21_PlacedOnceInLayout ==
    /\ [](/\ call.op = "measure" => Placed(call) = <<>> /\ bar = call.self
          /\ (call.op = "layout" /\ call.pc # "return") => Placed(call) = <<>>
          /\ (call.op = "layout" /\ call.pc = "return") =>
                /\ Len(Placed(call)) = 1
                /\ bar = call.self)
    /\ [][/\ Placed(call') # Placed(call) /\ Placed(call') # <<>> =>
                /\ call.op = "layout"
                /\ call.pc = "place_child"
                /\ call'.op = "layout"
                /\ call'.pc = "return"
                /\ call'.placed = <<call.text_pos>>
          /\ (call.op = "layout" /\ call' = NoCall) => Len(Placed(call)) = 1
          /\ (call.op = "measure" \/ call'.op = "measure") => bar' = bar]_vars

\* a layout about to return, its label placed at (1/2, 0)
C21_Witness ==
    /\ call.op = "layout"
    /\ call.pc = "return"
    /\ call.label_size = Size_new(Zero, One)
    /\ call.final_size = Size_new(One, One)
    /\ call.placed = <<[x |-> Frac(1, 2), y |-> Zero]>>

(***************************************************************************)
(* Claim on the bounds constrain_aspect_ratio returns (checked under       *)
(* QuerySpec).                                                             *)
(***************************************************************************)
\* C22: with both slots Constrain with positive limits h and v and a
\* positive aspect_ratio, the bound constrain_aspect_ratio returns for an
\* axis never exceeds that axis's own limit (Horizontal <= h, Vertical <= v),
\* and the two bounds returned for the same policy are in the requested
\* proportion: vertical bound == aspect_ratio * horizontal bound.
C22_BoundWithinLimit ==
    (/\ IsRatioQuery
     /\ IsConstrain(call.self.horizontal)
     /\ IsConstrain(call.self.vertical)
     /\ FGt(call.self.horizontal.limit, Zero)
     /\ FGt(call.self.vertical.limit, Zero)
     /\ FGt(call.aspect_ratio, Zero)) =>
        LET own == BiAxial_value_for_axis(call.self, call.axis).limit
            other == BiAxial_constrain_aspect_ratio(
                         call.self, call.aspect_ratio, Axis_cross(call.axis))
            horizontal == IF call.axis = "Horizontal" THEN call.ret ELSE other
            vertical == IF call.axis = "Vertical" THEN call.ret ELSE other
        IN  /\ call.ret.some
            /\ FLe(call.ret.value, own)
            /\ FEq(vertical.value, FMul(call.aspect_ratio, horizontal.value))

\* what does hold: in the branch taken when h / v > aspect_ratio the two
\* bounds are in the requested proportion
C22_ProportionWhenHeightBound ==
    (/\ IsRatioQuery
     /\ IsConstrain(call.self.horizontal)
     /\ IsConstrain(call.self.vertical)
     /\ FGt(call.self.horizontal.limit, Zero)
     /\ FGt(call.self.vertical.limit, Zero)
     /\ ~is_infinite(call.self.horizontal.limit)
     /\ FGt(call.aspect_ratio, Zero)
     /\ ~is_infinite(call.aspect_ratio)
     /\ FGt(FDiv(call.self.horizontal.limit, call.self.vertical.limit),
            call.aspect_ratio)) =>
        FEq(BiAxial_constrain_aspect_ratio(call.self, call.aspect_ratio,
                                            "Vertical").value,
            FMul(call.aspect_ratio,
                 BiAxial_constrain_aspect_ratio(call.self, call.aspect_ratio,
                                                "Horizontal").value))

====
